---- MODULE Spec2Model ----
(***************************************************************************)
(* EEGsegment.m (YH_integrative EEG features): segmentation of a channel x *)
(* time EEG matrix into blocks of equal length.  Every invocation of the   *)
(* function is a workspace of its own (MATLAB passes arguments by value);  *)
(* the workspaces of the invocations in flight are the state, one          *)
(* statement of the function is one step.                                  *)
(*                                                                         *)
(* Sampling rate, block length and overlap are integers, so that the       *)
(* products of lines 16-17 are sample counts.  Times are in seconds.       *)
(***************************************************************************)
EXTENDS Integers, Sequences, FiniteSets, TLC

VARIABLES calls, data, sampleRate, blockLength, overlap,
          blockPoint, overPoint, channelN, pointN, blockN,
          segData, b, times, pc, err

(* EEGfilter.m: the arguments of the call (fData is its data, fSampleRate  *)
(* its sampleRate), its locals and its position                            *)
VARIABLES fData, band, filterType, order, electrode, fSampleRate,
          data2fil, filteredData0, filteredData, fpc, ferr

filt ==
  <<fData, band, filterType, order, electrode, fSampleRate,
    data2fil, filteredData0, filteredData, fpc, ferr>>

segm ==
  <<calls, data, sampleRate, blockLength, overlap,
    blockPoint, overPoint, channelN, pointN, blockN,
    segData, b, times, pc, err>>

vars ==
  <<segm, filt>>

inputs ==
  <<calls, data, sampleRate, blockLength, overlap>>

(* ------------------------------ bounds --------------------------------- *)
MaxRate ==
  2
MaxBlockLen ==
  3
MaxOverlap ==
  3
MaxChannels ==
  2
MaxPoints ==
  8
ConcMaxLen ==
  2
ConcMaxPoints ==
  4
HalfMaxPoints ==
  12
MaxTime ==
  3
MaxFChannels ==
  3
MaxElectrodes ==
  3
MaxOrder ==
  2

(* ------------------------------ inputs --------------------------------- *)
(* A channel x time matrix all of whose samples are different, so that a   *)
(* block of the output identifies the samples it was copied from.  The     *)
(* matrices of different invocations (seed) share no sample.               *)
SampleTag(seed, c, t) ==
  ((seed * (MaxChannels + 1)) + c) * (MaxPoints + ConcMaxPoints + HalfMaxPoints + 1) + t

MakeData(ch, n, seed) ==
  [c \in 1..ch |-> [t \in 1..n |-> SampleTag(seed, c, t)]]

(* --------------------------- pure helpers ------------------------------ *)
(* line 16, line 17: seconds to samples *)
BlockPointsNoRate(rate, len) ==
  len

BlockPoints(rate, len) ==
  rate * len

(* line 21: floor(num/den) in IEEE doubles; a zero divisor gives Inf, NaN  *)
(* or -Inf by the sign of the numerator, and floor keeps them.             *)
FloorDiv(num, den) ==
  IF den = 0
    THEN [kind |-> (IF num > 0 THEN "Inf" ELSE IF num = 0 THEN "NaN" ELSE "-Inf"),
          val |-> 0]
    ELSE [kind |-> "finite", val |-> num \div den]

BlockCountNoFirstBlock(pN, bP, oP) ==
  FloorDiv(pN, oP)

BlockCount(pN, bP, oP) ==
  FloorDiv(pN - (bP - oP), oP)

(* a size or a colon bound below zero is an empty dimension or range *)
Extent(n) ==
  IF n < 0 THEN 0 ELSE n

(* line 24: zeros(channelN, blockPoint, n), block-major *)
Zeros(chN, bP, n) ==
  [k \in 1..Extent(n) |-> [c \in 1..chN |-> [t \in 1..bP |-> 0]]]

(* line 27, right-hand side: data(:, lo:hi) *)
Slice(d, lo, hi) ==
  [c \in 1..Len(d) |-> [t \in 1..Extent(hi - lo + 1) |-> d[c][lo + t - 1]]]

(* line 27: first and last column read for block k (1-based) *)
BlockLo(k, oP) ==
  (k - 1) * oP + 1

BlockHi(k, oP, bP) ==
  (k - 1) * oP + bP

(* line 30: (0:n-1)*blockLength *)
TimeScaleFromOne(n, len) ==
  [k \in 1..Extent(n) |-> k * len]

TimeScale(n, len) ==
  [k \in 1..Extent(n) |-> (k - 1) * len]

(* line 27, left-hand side: segData(:,:,k) = blk, in the workspace of      *)
(* invocation p only                                                       *)
StoreBlockShared(seg, p, k, blk) ==
  [q \in DOMAIN seg |-> IF k \in DOMAIN seg[q]
                          THEN [seg[q] EXCEPT ![k] = blk]
                          ELSE seg[q]]

StoreBlock(seg, p, k, blk) ==
  [seg EXCEPT ![p] = [seg[p] EXCEPT ![k] = blk]]

(* ------------------------------- Init ---------------------------------- *)
Fresh(P) ==
  /\ calls = P
  /\ blockPoint = [p \in P |-> 0]
  /\ overPoint = [p \in P |-> 0]
  /\ channelN = [p \in P |-> 0]
  /\ pointN = [p \in P |-> 0]
  /\ blockN = [p \in P |-> [kind |-> "finite", val |-> 0]]
  /\ segData = [p \in P |-> <<>>]
  /\ b = [p \in P |-> 0]
  /\ times = [p \in P |-> <<>>]
  /\ pc = [p \in P |-> "l16"]
  /\ err = [p \in P |-> "none"]

(* EEGfilter is not called *)
NoFilterCall ==
  /\ fData = <<>>
  /\ band = <<>>
  /\ filterType = "none"
  /\ order = 0
  /\ electrode = [class |-> "double", orient |-> "row", val |-> <<>>]
  /\ fSampleRate = 0
  /\ data2fil = <<>>
  /\ filteredData0 = <<>>
  /\ filteredData = <<>>
  /\ fpc = "idle"
  /\ ferr = "none"

(* one invocation *)
Init ==
  /\ Fresh({1})
  /\ NoFilterCall
  /\ \E ch \in 1..MaxChannels, n \in 1..MaxPoints :
       data = [p \in {1} |-> MakeData(ch, n, p)]
  /\ sampleRate \in [{1} -> 1..MaxRate]
  /\ blockLength \in [{1} -> 1..MaxBlockLen]
  /\ overlap \in [{1} -> 0..MaxOverlap]

(* two invocations in flight at once, each on a matrix of its own *)
InitConc ==
  /\ Fresh({1, 2})
  /\ NoFilterCall
  /\ \E n1 \in 1..ConcMaxPoints, n2 \in 1..ConcMaxPoints :
       data = [p \in {1, 2} |-> MakeData(1, IF p = 1 THEN n1 ELSE n2, p)]
  /\ sampleRate = [p \in {1, 2} |-> 1]
  /\ blockLength \in [{1, 2} -> 1..ConcMaxLen]
  /\ overlap \in [{1, 2} -> 0..ConcMaxLen]

(* one invocation whose overlap is half its block length; the last case is *)
(* 2 channels x 1000 samples at 100 Hz, blocks of 6 s, overlap of 3 s      *)
InitHalf ==
  /\ Fresh({1})
  /\ NoFilterCall
  /\ \/ \E ch \in 1..MaxChannels, n \in 1..HalfMaxPoints,
            rate \in 1..MaxRate, ov \in 1..MaxOverlap :
          /\ data = [p \in {1} |-> MakeData(ch, n, p)]
          /\ sampleRate = [p \in {1} |-> rate]
          /\ overlap = [p \in {1} |-> ov]
          /\ blockLength = [p \in {1} |-> 2 * ov]
     \/ /\ data = [p \in {1} |-> MakeData(2, 1000, p)]
        /\ sampleRate = [p \in {1} |-> 100]
        /\ overlap = [p \in {1} |-> 3]
        /\ blockLength = [p \in {1} |-> 6]

(* ------------------------------ actions -------------------------------- *)
(* lines 16-17 *)
ComputePoints(p) ==
  /\ pc[p] = "l16"
  /\ blockPoint' = [blockPoint EXCEPT ![p] = BlockPoints(sampleRate[p], blockLength[p])]
  /\ overPoint' = [overPoint EXCEPT ![p] = BlockPoints(sampleRate[p], overlap[p])]
  /\ pc' = [pc EXCEPT ![p] = "l19"]
  /\ UNCHANGED <<filt, inputs, channelN, pointN, blockN, segData, b, times, err>>

(* lines 19-20 *)
ReadDims(p) ==
  /\ pc[p] = "l19"
  /\ channelN' = [channelN EXCEPT ![p] = Len(data[p])]
  /\ pointN' = [pointN EXCEPT ![p] = Len(data[p][1])]
  /\ pc' = [pc EXCEPT ![p] = "l21"]
  /\ UNCHANGED <<filt, inputs, blockPoint, overPoint, blockN, segData, b, times, err>>

(* line 21 *)
ComputeBlockN(p) ==
  /\ pc[p] = "l21"
  /\ blockN' = [blockN EXCEPT ![p] = BlockCount(pointN[p], blockPoint[p], overPoint[p])]
  /\ pc' = [pc EXCEPT ![p] = "l24"]
  /\ UNCHANGED <<filt, inputs, blockPoint, overPoint, channelN, pointN, segData, b, times, err>>

Raise(p, id) ==
  /\ pc' = [pc EXCEPT ![p] = "error"]
  /\ err' = [err EXCEPT ![p] = id]
  /\ segData' = [segData EXCEPT ![p] = <<>>]
  /\ times' = [times EXCEPT ![p] = <<>>]
  /\ UNCHANGED b

(* line 24, with the first evaluation of the loop header of line 26.       *)
(* zeros() rejects a NaN size and cannot allocate an Inf one; a -Inf size  *)
(* is rejected like NaN or clamped to zero like a negative one, depending  *)
(* on the interpreter.                                                     *)
Allocate(p) ==
  /\ pc[p] = "l24"
  /\ \/ /\ blockN[p].kind = "finite"
        /\ segData' = [segData EXCEPT ![p] = Zeros(channelN[p], blockPoint[p], blockN[p].val)]
        /\ b' = [b EXCEPT ![p] = 1]
        /\ pc' = [pc EXCEPT ![p] = "l26"]
        /\ UNCHANGED <<times, err>>
     \/ /\ blockN[p].kind = "Inf"
        /\ Raise(p, "MATLAB:array:SizeLimitExceeded")
     \/ /\ blockN[p].kind = "NaN"
        /\ Raise(p, "MATLAB:NonIntegerInput")
     \/ /\ blockN[p].kind = "-Inf"
        /\ Raise(p, "MATLAB:NonIntegerInput")
     \/ /\ blockN[p].kind = "-Inf"
        /\ segData' = [segData EXCEPT ![p] = Zeros(channelN[p], blockPoint[p], 0)]
        /\ b' = [b EXCEPT ![p] = 1]
        /\ pc' = [pc EXCEPT ![p] = "l26"]
        /\ UNCHANGED <<times, err>>
  /\ UNCHANGED <<filt, inputs, blockPoint, overPoint, channelN, pointN, blockN>>

(* the upper end of 1:blockN *)
LoopEnd(p) ==
  IF blockN[p].kind = "finite" THEN blockN[p].val ELSE 0

(* lines 26-28, one iteration *)
LoopBody(p) ==
  /\ pc[p] = "l26"
  /\ b[p] <= LoopEnd(p)
  /\ LET lo == BlockLo(b[p], overPoint[p])
         hi == BlockHi(b[p], overPoint[p], blockPoint[p])
     IN IF lo < 1 \/ hi > pointN[p]
          THEN Raise(p, "MATLAB:badsubscript")
          ELSE LET blk == Slice(data[p], lo, hi)
               IN IF Len(blk) # channelN[p] \/ Len(blk[1]) # blockPoint[p]
                    THEN Raise(p, "MATLAB:subsassigndimmismatch")
                    ELSE /\ segData' = StoreBlock(segData, p, b[p], blk)
                         /\ b' = [b EXCEPT ![p] = b[p] + 1]
                         /\ UNCHANGED <<times, pc, err>>
  /\ UNCHANGED <<filt, inputs, blockPoint, overPoint, channelN, pointN, blockN>>

(* line 26, the range is exhausted *)
LoopExit(p) ==
  /\ pc[p] = "l26"
  /\ b[p] > LoopEnd(p)
  /\ pc' = [pc EXCEPT ![p] = "l30"]
  /\ UNCHANGED <<filt, inputs, blockPoint, overPoint, channelN, pointN, blockN,
                 segData, b, times, err>>

(* line 30 and the return of line 32 *)
ComputeTimes(p) ==
  /\ pc[p] = "l30"
  /\ times' = [times EXCEPT ![p] = TimeScale(LoopEnd(p), blockLength[p])]
  /\ pc' = [pc EXCEPT ![p] = "done"]
  /\ UNCHANGED <<filt, inputs, blockPoint, overPoint, channelN, pointN, blockN,
                 segData, b, err>>

Next ==
  \/ \E p \in calls : ComputePoints(p)
  \/ \E p \in calls : ReadDims(p)
  \/ \E p \in calls : ComputeBlockN(p)
  \/ \E p \in calls : Allocate(p)
  \/ \E p \in calls : LoopBody(p)
  \/ \E p \in calls : LoopExit(p)
  \/ \E p \in calls : ComputeTimes(p)

Spec ==
  Init /\ [][Next]_vars

SpecConc ==
  InitConc /\ [][Next]_vars

SpecHalf ==
  InitHalf /\ [][Next]_vars


(* ============================ EEGfilter.m ============================== *)
(* A matrix is the sequence of its rows.  The Butterworth design and the   *)
(* IIR recursion are library calls (butter, filter): a design is the       *)
(* record of the arguments butter is given, and a filtered sample is the   *)
(* record of the design and of the samples before and at it along the      *)
(* filtered dimension (the filter is causal).                              *)

Rows(M) ==
  Len(M)

Cols(M) ==
  IF Len(M) = 0 THEN 0 ELSE Len(M[1])

(* the char vector 'all' as the codes == compares: 'a' = 97, 'l' = 108 *)
AllChars ==
  [class |-> "char", orient |-> "row", val |-> <<97, 108, 108>>]

(* size(e, 2) *)
Width(e) ==
  IF e.orient = "row" THEN Len(e.val) ELSE 1

(* line 25: electrode == 'all' with implicit expansion against the 1 x 3   *)
(* right-hand side; the second dimensions must be equal or one of them 1.  *)
(* The if is taken when every element of the comparison is true.           *)
ElectrodeIsAll(e) ==
  IF Width(e) \notin {1, 3}
    THEN "MATLAB:dimagree"
    ELSE IF e.orient = "row" /\ Len(e.val) = 3
           THEN (IF \A i \in 1..3 : e.val[i] = AllChars.val[i] THEN "true" ELSE "false")
           ELSE (IF \A i \in 1..Len(e.val) : \A j \in 1..3 : e.val[i] = AllChars.val[j]
                   THEN "true" ELSE "false")

(* line 28: data(electrode,:), the rows of data numbered by electrode *)
IndexRows(M, idx) ==
  [i \in 1..Len(idx) |-> M[idx[i]]]

(* band/(sampleRate/2), element by element, as a fraction *)
Normalised(bnd, rate) ==
  [i \in 1..Len(bnd) |-> [num |-> 2 * bnd[i], den |-> rate]]

(* butter(order, Wn, ftype) *)
Butter(ord, Wn, ftype) ==
  [order |-> ord, Wn |-> Wn, ftype |-> ftype]

(* filter(b, a, x) on a vector *)
FilterVec(design, x) ==
  [t \in 1..Len(x) |-> [design |-> design, past |-> SubSeq(x, 1, t)]]

(* filter(b, a, X): along the first dimension of X whose size is not 1,    *)
(* i.e. down the columns, but along the row when X is a single row         *)
Filter(design, X) ==
  IF Rows(X) = 1
    THEN <<FilterVec(design, X[1])>>
    ELSE [r \in 1..Rows(X) |->
            [c \in 1..Cols(X) |->
               [design |-> design, past |-> [i \in 1..r |-> X[i][c]]]]]

(* lines 34, 37, 40: the design of the single-pass filter types *)
SingleDesign(ftype, ord, bnd, rate) ==
  Butter(ord, Normalised(bnd, rate),
         CASE ftype = "LP" -> "low" [] ftype = "HP" -> "high" [] ftype = "BS" -> "stop")

(* a time x channel matrix of different samples *)
MakeSignal(T, C) ==
  [t \in 1..T |-> [c \in 1..C |-> t * (MaxFChannels + 1) + c]]

IndexLists(C) ==
  UNION {[1..k -> 1..C] : k \in 1..MaxElectrodes}

(* one call of EEGfilter; EEGsegment is not called *)
InitFilter ==
  /\ Fresh({})
  /\ data = <<>>
  /\ sampleRate = <<>>
  /\ blockLength = <<>>
  /\ overlap = <<>>
  /\ \E T \in 2..MaxTime, C \in 1..MaxFChannels :
       /\ fData = MakeSignal(T, C)
       /\ \/ electrode = AllChars
          \/ \E idx \in IndexLists(C), o \in {"row", "col"} :
               electrode = [class |-> "double", orient |-> o, val |-> idx]
  /\ filterType \in {"LP", "HP", "BS", "BP"}
  /\ band = (IF filterType \in {"LP", "HP"} THEN <<1>> ELSE <<1, 2>>)
  /\ order \in 1..MaxOrder
  /\ fSampleRate = 8
  /\ data2fil = <<>>
  /\ filteredData0 = <<>>
  /\ filteredData = <<>>
  /\ fpc = "l23"
  /\ ferr = "none"

FRaise(id) ==
  /\ fpc' = "error"
  /\ ferr' = id
  /\ UNCHANGED <<data2fil, filteredData0, filteredData>>

(* lines 23-29; double() keeps the value of every sample *)
SelectData ==
  /\ fpc = "l23"
  /\ LET isAll == ElectrodeIsAll(electrode)
     IN CASE isAll = "MATLAB:dimagree" -> FRaise(isAll)
          [] isAll = "true" ->
               /\ data2fil' = fData
               /\ fpc' = "l32"
               /\ UNCHANGED <<filteredData0, filteredData, ferr>>
          [] isAll = "false" ->
               IF \E i \in 1..Len(electrode.val) :
                    electrode.val[i] < 1 \/ electrode.val[i] > Rows(fData)
                 THEN FRaise("MATLAB:badsubscript")
                 ELSE /\ data2fil' = IndexRows(fData, electrode.val)
                      /\ fpc' = "l32"
                      /\ UNCHANGED <<filteredData0, filteredData, ferr>>
  /\ UNCHANGED <<segm, fData, band, filterType, order, electrode, fSampleRate>>

(* lines 32-41: the cases 'LP', 'HP' and 'BS' *)
FilterSingle ==
  /\ fpc = "l32"
  /\ filterType \in {"LP", "HP", "BS"}
  /\ filteredData' = Filter(SingleDesign(filterType, order, band, fSampleRate), data2fil)
  /\ fpc' = "done"
  /\ UNCHANGED <<segm, fData, band, filterType, order, electrode, fSampleRate,
                 data2fil, filteredData0, ferr>>

(* lines 42-44: case 'BP', the low-pass at band(2) *)
FilterBandLow ==
  /\ fpc = "l32"
  /\ filterType = "BP"
  /\ filteredData0' = Filter(Butter(order, Normalised(<<band[2]>>, fSampleRate), "low"),
                             data2fil)
  /\ fpc' = "l45"
  /\ UNCHANGED <<segm, fData, band, filterType, order, electrode, fSampleRate,
                 data2fil, filteredData, ferr>>

(* lines 45-46: case 'BP', the high-pass at band(1) of the low-passed data *)
FilterBandHigh ==
  /\ fpc = "l45"
  /\ filteredData' = Filter(Butter(order, Normalised(<<band[1]>>, fSampleRate), "high"),
                            filteredData0)
  /\ fpc' = "done"
  /\ UNCHANGED <<segm, fData, band, filterType, order, electrode, fSampleRate,
                 data2fil, filteredData0, ferr>>

NextFilter ==
  \/ SelectData
  \/ FilterSingle
  \/ FilterBandLow
  \/ FilterBandHigh

SpecFilter ==
  InitFilter /\ [][NextFilter]_vars


(* ---------------------- the function, run alone ------------------------ *)
(* lines 15-32 executed from the first statement to the last without       *)
(* another invocation in between: the set of outcomes the call can have    *)
EEGsegment(d, rate, len, ov) ==
  LET bP == BlockPoints(rate, len)
      oP == BlockPoints(rate, ov)
      pN == Len(d[1])
      n == BlockCount(pN, bP, oP)
      fail(id) == [status |-> "error", segData |-> <<>>, times |-> <<>>, err |-> id]
      ok(cnt) ==
        IF \E k \in 1..Extent(cnt) : BlockLo(k, oP) < 1 \/ BlockHi(k, oP, bP) > pN
          THEN fail("MATLAB:badsubscript")
          ELSE [status |-> "done",
                segData |-> [k \in 1..Extent(cnt) |->
                               Slice(d, BlockLo(k, oP), BlockHi(k, oP, bP))],
                times |-> TimeScale(cnt, len),
                err |-> "none"]
  IN CASE n.kind = "finite" -> {ok(n.val)}
       [] n.kind = "Inf" -> {fail("MATLAB:array:SizeLimitExceeded")}
       [] n.kind = "NaN" -> {fail("MATLAB:NonIntegerInput")}
       [] n.kind = "-Inf" -> {fail("MATLAB:NonIntegerInput"), ok(0)}

Outcome(p) ==
  [status |-> pc[p], segData |-> segData[p], times |-> times[p], err |-> err[p]]

(* ------------------------- reading the outcome ------------------------- *)
Returned(p) ==
  pc[p] = "done"

Failed(p) ==
  pc[p] = "error"

Ended(p) ==
  Returned(p) \/ Failed(p)

(* the parameters satisfy: sampling rate > 0, block length > overlap >= 0 *)
ValidInput(p) ==
  /\ sampleRate[p] > 0
  /\ overlap[p] >= 0
  /\ blockLength[p] > overlap[p]

TotalLength(p) ==
  Len(data[p][1])

SpecBlockPoints(p) ==
  sampleRate[p] * blockLength[p]

SpecOverlapPoints(p) ==
  sampleRate[p] * overlap[p]

Stride(p) ==
  SpecBlockPoints(p) - SpecOverlapPoints(p)

(* block k (1-based) of the output is the input at sample offset o *)
BlockAt(p, k, o) ==
  /\ o >= 0
  /\ o + SpecBlockPoints(p) <= TotalLength(p)
  /\ segData[p][k] = Slice(data[p], o + 1, o + SpecBlockPoints(p))

(* the sample offsets a block of the output can have been copied from *)
Offsets(p) ==
  0..TotalLength(p)

(* C1: for every valid input the number of blocks returned is
   floor((totalLength - stride) / stride), stride = blockPoints - overlapPoints *)
C1_BlockCountByStride ==
  \A p \in calls :
    (ValidInput(p) /\ Returned(p))
      => Len(segData[p]) = Extent((TotalLength(p) - Stride(p)) \div Stride(p))

(* C2: for every valid input, returned block number k (0-based) is the slice
   of the input that starts at sample offset k*stride and is blockPoints long *)
C2_BlockAtStrideOffset ==
  \A p \in calls :
    (ValidInput(p) /\ Returned(p))
      => \A k \in 1..Len(segData[p]) : BlockAt(p, k, (k - 1) * Stride(p))

(* C3: the start time reported for a block is the sample offset of the first
   sample of that block divided by the sampling rate *)
C3_TimesAreBlockStarts ==
  \A p \in calls :
    Returned(p)
      => \A k \in 1..Len(segData[p]) :
           /\ k \in DOMAIN times[p]
           /\ \E o \in Offsets(p) :
                BlockAt(p, k, o) /\ times[p][k] * sampleRate[p] = o

(* C4: with overlap = 0 and a signal of at least one block, the call returns
   blocks that are contiguous and disjoint: block k (0-based) is the samples
   [k*blockPoints, (k+1)*blockPoints) *)
C4_ZeroOverlapPartitions ==
  \A p \in calls :
    (overlap[p] = 0 /\ TotalLength(p) >= SpecBlockPoints(p) /\ Ended(p))
      => /\ Returned(p)
         /\ \A k \in 1..Len(segData[p]) : BlockAt(p, k, (k - 1) * SpecBlockPoints(p))

(* C5: a call that returns has at least one block, and every block is a
   slice that lies inside the input *)
C5_ReturnedResultComplete ==
  \A p \in calls :
    Returned(p)
      => /\ Len(segData[p]) >= 1
         /\ \A k \in 1..Len(segData[p]) : \E o \in Offsets(p) : BlockAt(p, k, o)

(* C6: a call with overlap >= blockLength ends in InvalidParameters and
   returns neither blocks nor start times (any error the call ends in is
   taken for InvalidParameters) *)
C6_InvalidParametersRaised ==
  \A p \in calls :
    (overlap[p] >= blockLength[p] /\ Ended(p))
      => /\ Failed(p)
         /\ segData[p] = <<>>
         /\ times[p] = <<>>

(* C7: a call with valid parameters and a signal shorter than one block ends
   in InsufficientSignalLength and returns no block array (any error the call
   ends in is taken for InsufficientSignalLength) *)
C7_InsufficientLengthRaised ==
  \A p \in calls :
    (ValidInput(p) /\ TotalLength(p) < SpecBlockPoints(p) /\ Ended(p))
      => Failed(p)

(* C8: the start times of a call that returns are as many as the blocks,
   start at 0, are strictly increasing and blockLength apart:
   times[k] = k*blockLength for block number k (0-based) *)
C8_TimesSpacedByBlockLength ==
  \A p \in calls :
    Returned(p)
      => /\ Len(times[p]) = Len(segData[p])
         /\ (Len(times[p]) >= 1 => times[p][1] = 0)
         /\ \A k \in 1..Len(times[p]) : times[p][k] = (k - 1) * blockLength[p]
         /\ \A k \in 1..(Len(times[p]) - 1) :
              /\ times[p][k] < times[p][k + 1]
              /\ times[p][k + 1] - times[p][k] = blockLength[p]

C8_Witness ==
  /\ Returned(1)
  /\ Len(times[1]) >= 3
  /\ blockLength[1] >= 2
  /\ overlap[1] # blockLength[1]

(* C9: the array a call returns has blockCount blocks, and every block has
   the channels of the input and samplingRate*blockLength samples a channel *)
C9_OutputShape ==
  \A p \in calls :
    Returned(p)
      => /\ Len(segData[p]) = Extent(LoopEnd(p))
         /\ \A k \in 1..Len(segData[p]) :
              /\ Len(segData[p][k]) = Len(data[p])
              /\ \A c \in 1..Len(segData[p][k]) :
                   Len(segData[p][k][c]) = sampleRate[p] * blockLength[p]

C9_Witness ==
  /\ Returned(1)
  /\ Len(segData[1]) >= 2
  /\ Len(data[1]) = 2
  /\ sampleRate[1] = 2
  /\ overlap[1] \notin {0, blockLength[1]}

(* C10: whatever the interleaving of the invocations in flight, each ends in
   an outcome it has when it runs alone, and no step changes an input *)
C10_InvocationsIndependent ==
  /\ [](\A p \in calls :
          Ended(p) => Outcome(p) \in EEGsegment(data[p], sampleRate[p],
                                                 blockLength[p], overlap[p]))
  /\ [][UNCHANGED inputs]_vars

C10_Witness ==
  /\ calls = {1, 2}
  /\ Returned(1)
  /\ Len(segData[1]) >= 2
  /\ pc[2] = "l26"
  /\ b[2] = 2
  /\ LoopEnd(2) >= 2

(* the columns of a time x channel matrix numbered by idx *)
ChannelsOf(M, idx) ==
  [t \in 1..Rows(M) |-> [j \in 1..Len(idx) |-> M[t][idx[j]]]]

(* every channel (column) of X filtered along time *)
FilteredChannels(design, X) ==
  [t \in 1..Rows(X) |->
     [c \in 1..Cols(X) |->
        [design |-> design, past |-> [i \in 1..t |-> X[i][c]]]]]

(* what the filter type makes of the channels X *)
FilteredAs(X) ==
  IF filterType = "BP"
    THEN FilteredChannels(Butter(order, Normalised(<<band[1]>>, fSampleRate), "high"),
           FilteredChannels(Butter(order, Normalised(<<band[2]>>, fSampleRate), "low"), X))
    ELSE FilteredChannels(SingleDesign(filterType, order, band, fSampleRate), X)

(* C11: for every numeric list of channel indices, whatever its length, the
   call does not fail and returns exactly the channels with those indices of
   the time x channel input, filtered; for 'all' it returns every channel of
   the input, filtered *)
C11_ElectrodeSelectsChannels ==
  fpc \in {"done", "error"}
    => /\ fpc = "done"
       /\ filteredData = FilteredAs(IF electrode.class = "char"
                                      THEN fData
                                      ELSE ChannelsOf(fData, electrode.val))

(* C12: when the overlap is exactly half the block length (overPoint =
   stride), the call returns what the stride rule gives: the block count is
   floor((totalLength - stride) / stride) and block number k (0-based) is the
   slice at sample offset k*stride; for 1000 samples, blocks of 600 points
   and an overlap of 300 points these are the 2 blocks [0:600) and [300:900) *)
C12_HalfOverlapRulesAgree ==
  \A p \in calls :
    (2 * overlap[p] = blockLength[p] /\ Ended(p))
      => /\ Returned(p)
         /\ SpecOverlapPoints(p) = Stride(p)
         /\ Len(segData[p]) = Extent((TotalLength(p) - Stride(p)) \div Stride(p))
         /\ \A k \in 1..Len(segData[p]) : BlockAt(p, k, (k - 1) * Stride(p))
         /\ (TotalLength(p) = 1000 /\ SpecBlockPoints(p) = 600 /\ SpecOverlapPoints(p) = 300)
              => /\ Len(segData[p]) = 2
                 /\ BlockAt(p, 1, 0)
                 /\ BlockAt(p, 2, 300)

C12_Witness ==
  /\ Returned(1)
  /\ TotalLength(1) = 1000
  /\ blockPoint[1] = 600
  /\ overPoint[1] = 300
  /\ Len(segData[1]) = 2

====
